---- MODULE Spec2Model ----
(***************************************************************************)
(* Model of the simulation compute engine of Complexity-emergence:         *)
(* the grid engine (core/fieldSim.js), the agent engine (sims/boids.js),   *)
(* the GL helpers (core/webgl.js), the interaction adapter                 *)
(* (core/interaction.js) and the orchestrator (core/engine.js).            *)
(*                                                                         *)
(* GPU objects are records [kind, sim, gen, role]: gen is the number of    *)
(* the setup call that created the object, so two objects created by       *)
(* different calls are never equal (JavaScript object identity).           *)
(* The contents of a texture are symbolic: the seed written by the         *)
(* initializer and the list of kernel applications made since, each with   *)
(* the uniforms the kernel could observe.                                  *)
(***************************************************************************)
EXTENDS Integers, Sequences, FiniteSets, TLC

VARIABLES
    grid,          \* [GridSims -> closure state of one fieldSim() instance]
    agent,         \* module-scope state of boids.js
    gl,            \* the GL context: live objects, texture data, attachments
    call,          \* trace of the last operation: dispatches, deletes, ...
    touchPos,      \* interaction.js
    touchActive,   \* interaction.js
    pointerDown,   \* interaction.js
    held,          \* environment: the pointer button pressed on the canvas
    activeSim,     \* engine.js
    params,        \* value of the parameter controls (controls.js getParams)
    speed,         \* value of the speed slider (controls.js getSpeed)
    loop,          \* the requestAnimationFrame chain of animate()
    setups,        \* number of setup calls made so far (names the objects)
    ticks,         \* history: steps dispatched since the last complete setup
    probe          \* one call of a function studied on its own: inputs, result

vars == <<grid, agent, gl, call, touchPos, touchActive, pointerDown, held,
          activeSim, params, speed, loop, setups, ticks, probe>>

----------------------------------------------------------------------------
(* Bounds *)

MaxSetups == 2      \* setup calls in one behaviour
MaxTicks == 2       \* steps dispatched on one pair of buffers
MaxSpeed == MaxTicks \* largest value of the speed slider

ParamValues == {1, 2}             \* values of the parameter controls
Seeds == {1, 2}                   \* outcomes of Math.random in an initializer
Positions == {<<0, 0>>} \* canvas UV positions of pointer events

----------------------------------------------------------------------------
(* Simulation modules *)

GridSims == {"rd", "osc"}
Sims == GridSims \cup {"boids"}
NoSim == "none"

GridProgs == {"step", "display"}
AgentProgs == {"step", "trailFade", "boidDraw", "display"}
ProgsOf(s) == IF s \in GridSims THEN GridProgs ELSE AgentProgs

Results == {"ok", "compile", "link"}

\* Outcomes of the kernel builds of one setup call: every kernel builds, or
\* one of them fails to compile or to link while the others succeed.
Outcomes(s) ==
    {o \in [ProgsOf(s) -> Results] :
        \A p, q \in ProgsOf(s) : o[p] # "ok" /\ o[q] # "ok" => p = q}

AllOk(s) == [p \in ProgsOf(s) |-> "ok"]

\* What one setup call meets: the random draw of the initializer and the
\* outcome of each kernel build.  The initializer runs, and draws, only
\* when every kernel builds.  In a context whose render targets are
\* incomplete only the setups in which every kernel builds are enumerated.
Envs(s) ==
    IF gl.fbStatus = "incomplete" THEN {[rnd |-> 1, out |-> AllOk(s)]}
    ELSE {[rnd |-> r, out |-> AllOk(s)] : r \in Seeds}
         \cup {[rnd |-> 1, out |-> o] : o \in Outcomes(s) \ {AllOk(s)}}

\* MAX_VERTEX_TEXTURE_IMAGE_UNITS of a context: none, or some.
VertexTextureUnits == {0, 4}

----------------------------------------------------------------------------
(* GPU objects and the GL context *)

null == [kind |-> "null", sim |-> NoSim, gen |-> 0, role |-> "null"]

Obj(kind, s, gen, role) == [kind |-> kind, sim |-> s, gen |-> gen, role |-> role]

Black == [seed |-> <<"black">>, hist |-> <<>>]

NoTouchArg == [pos |-> <<-1, -1>>, active |-> FALSE]

\* The trace of one operation: its name, module and arguments, the GL calls
\* it made and what the module held before it.
EmptyCall == [op |-> "init", sim |-> NoSim, p |-> 0, touch |-> NoTouchArg,
              dispatches |-> <<>>, deletes |-> 0, deleted |-> {},
              created |-> {}, inits |-> 0, failed |-> FALSE, threw |-> FALSE,
              steps |-> 0, before |-> {}, age |-> -1, log |-> <<>>]

\* The trace left by an event handler that calls no simulation module.
EventCall == [EmptyCall EXCEPT !.op = "event"]

EmptyMap == [h \in {} |-> 0]

\* A new context reporting vtu vertex texture units, in which a float
\* texture is a complete colour attachment.
EmptyGL(vtu) == [live |-> {}, texData |-> EmptyMap, fbTex |-> EmptyMap,
                 blend |-> FALSE, maxVTU |-> vtu, fbStatus |-> "complete"]

\* gl.checkFramebufferStatus(gl.FRAMEBUFFER) with a float texture attached
checkFramebufferStatus(w) == w.gl.fbStatus

\* gl.createShader x2 inside createProgram: both stages are compiled before
\* either result is tested, so both shader objects exist on every path.
ShadersOf(s, gen, p) ==
    {Obj("shader", s, gen, p \o "/vs"), Obj("shader", s, gen, p \o "/fs")}

\* The value createProgram returns.
ProgramHandle(s, gen, p, result) ==
    IF result = "ok" THEN Obj("program", s, gen, p) ELSE null

\* The objects createProgram leaves in the context.
ProgramObjects(s, gen, p, result) ==
    ShadersOf(s, gen, p) \cup
    (IF result = "compile" THEN {} ELSE {Obj("program", s, gen, p)})

createProgram(w, s, gen, p, result) ==
    [w EXCEPT !.gl.live = @ \cup ProgramObjects(s, gen, p, result),
              !.call.created = @ \cup ProgramObjects(s, gen, p, result),
              !.call.failed = @ \/ (result # "ok")]

createTexture(w, tex, data) ==
    [w EXCEPT !.gl.live = @ \cup {tex},
              !.gl.texData = (tex :> data) @@ @,
              !.call.created = @ \cup {tex}]

createFramebuffer(w, fb, tex) ==
    [w EXCEPT !.gl.live = @ \cup {fb},
              !.gl.fbTex = (fb :> tex) @@ @,
              !.call.created = @ \cup {fb}]

createBuffer(w, buf) ==
    [w EXCEPT !.gl.live = @ \cup {buf},
              !.call.created = @ \cup {buf}]

Restrict(f, S) == [x \in (DOMAIN f) \cap S |-> f[x]]

\* gl.deleteTexture / deleteFramebuffer / deleteProgram / deleteBuffer.
glDelete(w, h) ==
    [w EXCEPT !.gl.live = @ \ {h},
              !.gl.texData = Restrict(@, DOMAIN @ \ {h}),
              !.gl.fbTex = Restrict(@, DOMAIN @ \ {h}),
              !.call.deletes = @ + 1,
              !.call.deleted = @ \cup {h}]

\* Mutant: the delete call is made without the "if (h)" test.
deleteUnguarded(w, h) == glDelete(w, h)

\* "if (h) gl.delete...(h)"
deleteIf(w, h) == IF h # null THEN glDelete(w, h) ELSE w

RECURSIVE deleteAll(_, _)
deleteAll(w, hs) ==
    IF hs = <<>> THEN w ELSE deleteAll(deleteIf(w, Head(hs)), Tail(hs))

\* What a sampler reads from a texture unit: an unbound or deleted texture
\* samples as opaque black.
Sample(w, tex) ==
    IF tex \in DOMAIN w.gl.texData THEN w.gl.texData[tex] ELSE Black

\* The texture a framebuffer writes to; the default framebuffer (null) is
\* the canvas.
Screen == [kind |-> "screen", sim |-> NoSim, gen |-> 0, role |-> "canvas"]

Attachment(w, fb) ==
    IF fb \in DOMAIN w.gl.fbTex THEN w.gl.fbTex[fb] ELSE Screen

\* One draw call: program prog with uniforms u, texture input on unit 0,
\* framebuffer fb bound, out the value the fragment stage produces.  A draw
\* on an incomplete framebuffer raises INVALID_FRAMEBUFFER_OPERATION and
\* writes nothing.
Draw(w, prog, u, input, fb, out) ==
    LET target == Attachment(w, fb)
        d == [prog |-> prog, uniforms |-> u, input |-> input, fb |-> fb,
              target |-> target, blend |-> w.gl.blend]
        w1 == [w EXCEPT !.call.dispatches = Append(@, d)]
    IN  IF target \in DOMAIN w.gl.texData
           /\ checkFramebufferStatus(w) = "complete"
        THEN [w1 EXCEPT !.gl.texData[target] = out]
        ELSE w1

----------------------------------------------------------------------------
(* Kernels (symbolic) *)

NoTouch == <<"notouch">>

\* initState(SIM_W, SIM_H, params): random data; only the oscillator
\* initializer reads params (spread, omega).
InitState(s, p, rnd) ==
    [seed |-> <<s, IF s = "osc" THEN p ELSE 0, rnd>>, hist |-> <<>>]

\* getStepUniforms(params, touch) of the two grid models: f, k / K only.
getStepUniforms(s, p, touch) == p

\* What the grid step shaders do with u_touch: the touch branch is taken
\* only when u_touch.x >= 0.0.  The data records each kernel application
\* and the touch it saw; the other uniforms of a dispatch are in the trace.
GridKernel(data, u_touch) ==
    [data EXCEPT !.hist =
        Append(@, <<"step", IF u_touch[1] >= 0 THEN u_touch ELSE NoTouch>>)]

----------------------------------------------------------------------------
(* Grid engine: fieldSim.js *)

Pair(a, b) == [i \in 0..1 |-> IF i = 0 THEN a ELSE b]

EmptyGrid == [stepProg |-> null, displayProg |-> null,
              textures |-> Pair(null, null),
              framebuffers |-> Pair(null, null),
              currentTex |-> 0]

GridSetup(w, s, gen, p, rnd, out) ==
    LET w1 == createProgram(w, s, gen, "step", out["step"])
        w2 == createProgram(w1, s, gen, "display", out["display"])
        sp == ProgramHandle(s, gen, "step", out["step"])
        dp == ProgramHandle(s, gen, "display", out["display"])
        w3 == [w2 EXCEPT !.grid[s].stepProg = sp, !.grid[s].displayProg = dp]
    IN  IF sp = null \/ dp = null THEN w3
        ELSE
        LET initData == InitState(s, p, rnd)
            t0 == Obj("texture", s, gen, "textures0")
            t1 == Obj("texture", s, gen, "textures1")
            f0 == Obj("framebuffer", s, gen, "framebuffers0")
            f1 == Obj("framebuffer", s, gen, "framebuffers1")
            w4 == [w3 EXCEPT !.call.inits = @ + 1]
            w5 == createTexture(w4, t0, initData)
            w6 == createTexture(w5, t1, initData)
            w7 == createFramebuffer(w6, f0, t0)
            w8 == createFramebuffer(w7, f1, t1)
        IN  [w8 EXCEPT !.grid[s].textures = Pair(t0, t1),
                       !.grid[s].framebuffers = Pair(f0, f1),
                       !.grid[s].currentTex = 0]

\* Mutant: teardown forgets the render targets.
GridTeardownListNoTargets(g) ==
    <<g.textures[0], g.textures[1], g.stepProg, g.displayProg>>

GridTeardownList(g) ==
    <<g.textures[0], g.textures[1], g.framebuffers[0], g.framebuffers[1],
      g.stepProg, g.displayProg>>

GridTeardown(w, s) ==
    LET w1 == deleteAll(w, GridTeardownList(w.grid[s]))
    IN  [w1 EXCEPT !.grid[s] = EmptyGrid]

\* Mutant: the step writes the buffer it reads.
GridStepTargetSame(g) == g.currentTex

GridStepTarget(g) == 1 - g.currentTex

\* Mutant: the stored position is uploaded whatever the flag.
GridTouchUniformStored(touch) == touch.pos

GridTouchUniform(touch) ==
    IF touch.active THEN touch.pos ELSE <<-1, -1>>

GridStep(w, s, p, touch) ==
    LET g == w.grid[s] IN
    IF g.stepProg = null THEN w
    ELSE
    LET u_touch == GridTouchUniform(touch)
        u_sim == getStepUniforms(s, p, touch)
        input == g.textures[g.currentTex]
        target == GridStepTarget(g)
        out == GridKernel(Sample(w, input), u_touch)
        w1 == Draw(w, g.stepProg, [u_touch |-> u_touch, u_sim |-> u_sim],
                   input, g.framebuffers[target], out)
    IN  [w1 EXCEPT !.grid[s].currentTex = target]

\* Mutant: render shows the buffer the last step read.
GridRenderInputStale(g) == g.textures[1 - g.currentTex]

GridRenderInput(g) == g.textures[g.currentTex]

GridRender(w, s, cs) ==
    LET g == w.grid[s] IN
    IF g.displayProg = null THEN w
    ELSE Draw(w, g.displayProg, [u_colourScheme |-> cs], GridRenderInput(g), null,
              [seed |-> <<"frame", cs>>, hist |-> <<Sample(w, GridRenderInput(g))>>])

----------------------------------------------------------------------------
(* Agent engine: boids.js *)

EmptyAgent == [stepProg |-> null, trailFadeProg |-> null,
               boidDrawProg |-> null, displayProg |-> null,
               stateTex |-> Pair(null, null), stateFB |-> Pair(null, null),
               trailTex |-> Pair(null, null), trailFB |-> Pair(null, null),
               indexBuf |-> null, curState |-> 0, curTrail |-> 0]

\* stateData: random positions and velocities; trailData: zeroed.
InitAgents(rnd) == [seed |-> <<"boids", 0, rnd>>, hist |-> <<>>]
ZeroTrail == [seed |-> <<"zero">>, hist |-> <<>>]

\* STEP_FS: the touch branch is taken only when u_touchActive > 0.5.
AgentKernel(data, u_touch, u_touchActive, u_touchButton) ==
    [data EXCEPT !.hist =
        Append(@, <<"step",
                    IF u_touchActive = 1 THEN <<u_touch, u_touchButton>> ELSE NoTouch>>)]

\* TRAIL_FADE_FS: texel * u_persistence.
TrailFade(data) ==
    [data EXCEPT !.hist = Append(@, <<"fade">>)]

\* BOID_DRAW_VS/FS under blendFunc(ONE, ONE): destination + point sprites
\* placed from the state texture.
Accumulate(dest, state) ==
    [dest EXCEPT !.hist = Append(@, <<"points", state>>)]

\* Mutant: setup does not look at the capability.
maxVTUAssumed(w) == 1

\* gl.getParameter(gl.MAX_VERTEX_TEXTURE_IMAGE_UNITS)
maxVTU(w) == w.gl.maxVTU

AgentSetup(w, gen, p, rnd, out) ==
    IF maxVTU(w) < 1 THEN w
    ELSE
    LET s == "boids"
        w1 == createProgram(w, s, gen, "step", out["step"])
        w2 == createProgram(w1, s, gen, "trailFade", out["trailFade"])
        w3 == createProgram(w2, s, gen, "boidDraw", out["boidDraw"])
        w4 == createProgram(w3, s, gen, "display", out["display"])
        sp == ProgramHandle(s, gen, "step", out["step"])
        tp == ProgramHandle(s, gen, "trailFade", out["trailFade"])
        bp == ProgramHandle(s, gen, "boidDraw", out["boidDraw"])
        dp == ProgramHandle(s, gen, "display", out["display"])
        w5 == [w4 EXCEPT !.agent.stepProg = sp, !.agent.trailFadeProg = tp,
                         !.agent.boidDrawProg = bp, !.agent.displayProg = dp]
    IN  IF sp = null \/ tp = null \/ bp = null \/ dp = null THEN w5
        ELSE
        LET stateData == InitAgents(rnd)
            s0 == Obj("texture", s, gen, "stateTex0")
            s1 == Obj("texture", s, gen, "stateTex1")
            sf0 == Obj("framebuffer", s, gen, "stateFB0")
            sf1 == Obj("framebuffer", s, gen, "stateFB1")
            t0 == Obj("texture", s, gen, "trailTex0")
            t1 == Obj("texture", s, gen, "trailTex1")
            tf0 == Obj("framebuffer", s, gen, "trailFB0")
            tf1 == Obj("framebuffer", s, gen, "trailFB1")
            ib == Obj("buffer", s, gen, "indexBuf")
            a1 == [w5 EXCEPT !.call.inits = @ + 1]
            a2 == createTexture(a1, s0, stateData)
            a3 == createTexture(a2, s1, stateData)
            a4 == createFramebuffer(a3, sf0, s0)
            a5 == createFramebuffer(a4, sf1, s1)
            a6 == createTexture(a5, t0, ZeroTrail)
            a7 == createTexture(a6, t1, ZeroTrail)
            a8 == createFramebuffer(a7, tf0, t0)
            a9 == createFramebuffer(a8, tf1, t1)
            a10 == createBuffer(a9, ib)
        IN  [a10 EXCEPT !.agent.stateTex = Pair(s0, s1),
                        !.agent.stateFB = Pair(sf0, sf1),
                        !.agent.trailTex = Pair(t0, t1),
                        !.agent.trailFB = Pair(tf0, tf1),
                        !.agent.indexBuf = ib,
                        !.agent.curState = 0,
                        !.agent.curTrail = 0]

AgentTeardownList(a) ==
    <<a.stateTex[0], a.stateFB[0], a.trailTex[0], a.trailFB[0],
      a.stateTex[1], a.stateFB[1], a.trailTex[1], a.trailFB[1],
      a.indexBuf, a.stepProg, a.trailFadeProg, a.boidDrawProg, a.displayProg>>

AgentTeardown(w) ==
    LET w1 == deleteAll(w, AgentTeardownList(w.agent))
    IN  [w1 EXCEPT !.agent = EmptyAgent]

\* setUniform(null, ...) calls gl.getUniformLocation(null, name): the
\* program argument is not nullable, the binding throws a TypeError and the
\* rest of step is skipped.
Throw(w) == [w EXCEPT !.call.threw = TRUE]

\* touch.button === 2 ? 1.0 : 0.0 (a touch object without a button gives 0)
TouchButton(touch) ==
    IF "button" \in DOMAIN touch THEN (IF touch.button = 2 THEN 1 ELSE 0) ELSE 0

\* The three touch uniforms of the update pass.
AgentTouchUniforms(touch) ==
    IF touch.active
    THEN [u_touch |-> touch.pos, u_touchActive |-> 1,
          u_touchButton |-> TouchButton(touch)]
    ELSE [u_touch |-> <<-1, -1>>, u_touchActive |-> 0, u_touchButton |-> 0]

\* Mutant: the fade pass reads the buffer it is about to write.
AgentFadeInputAlternate(a) == a.trailTex[1 - a.curTrail]

AgentFadeInput(a) == a.trailTex[a.curTrail]

\* Mutant: the points are placed from the state of the previous step.
AgentPointInputPrevious(a, nextState) == a.stateTex[1 - nextState]

\* The state texture the point pass binds: stateTex[curState], after
\* curState = nextState.
AgentPointInput(a, nextState) == a.stateTex[nextState]

AgentStep(w, p, touch) ==
    LET a == w.agent IN
    IF a.stepProg = null THEN w
    ELSE
    LET nextState == 1 - a.curState
        \* 1. update pass
        in1 == a.stateTex[a.curState]
        u == AgentTouchUniforms(touch)
        out1 == AgentKernel(Sample(w, in1), u.u_touch, u.u_touchActive,
                            u.u_touchButton)
        w1 == Draw(w, a.stepProg,
                   [u_touch |-> u.u_touch, u_touchActive |-> u.u_touchActive,
                    u_touchButton |-> u.u_touchButton, u_sim |-> p],
                   in1, a.stateFB[nextState], out1)
        w2 == [w1 EXCEPT !.agent.curState = nextState]
    IN  IF a.trailFadeProg = null THEN Throw(w2)
        ELSE
        LET \* 2. fade pass
            nextTrail == 1 - a.curTrail
            in2 == AgentFadeInput(a)
            out2 == TrailFade(Sample(w2, in2))
            w3 == Draw(w2, a.trailFadeProg, [u_persistence |-> p], in2,
                       a.trailFB[nextTrail], out2)
        IN  IF a.boidDrawProg = null THEN Throw(w3)
            ELSE
            LET \* 3. point accumulation pass, still bound to trailFB[nextTrail]
                in3 == AgentPointInput(a, nextState)
                w4 == [w3 EXCEPT !.gl.blend = TRUE]
                dest == Sample(w4, Attachment(w4, a.trailFB[nextTrail]))
                out3 == Accumulate(dest, Sample(w4, in3))
                w5 == Draw(w4, a.boidDrawProg, [u_maxSpeed |-> p], in3,
                           a.trailFB[nextTrail], out3)
                w6 == [w5 EXCEPT !.gl.blend = FALSE]
            IN  [w6 EXCEPT !.agent.curTrail = nextTrail]

AgentRenderInput(a) == a.trailTex[a.curTrail]

AgentRender(w, cs) ==
    LET a == w.agent IN
    IF a.displayProg = null THEN w
    ELSE Draw(w, a.displayProg, [u_colourScheme |-> cs], AgentRenderInput(a), null,
              [seed |-> <<"frame", cs>>, hist |-> <<Sample(w, AgentRenderInput(a))>>])

----------------------------------------------------------------------------
(* The simulation module contract: setup / teardown / step / render *)

World == [grid |-> grid, agent |-> agent, gl |-> gl, call |-> call]

Handles(w, s) ==
    IF s \in GridSims
    THEN LET g == w.grid[s] IN
         {g.stepProg, g.displayProg, g.textures[0], g.textures[1],
          g.framebuffers[0], g.framebuffers[1]} \ {null}
    ELSE LET a == w.agent IN
         {a.stepProg, a.trailFadeProg, a.boidDrawProg, a.displayProg,
          a.stateTex[0], a.stateTex[1], a.stateFB[0], a.stateFB[1],
          a.trailTex[0], a.trailTex[1], a.trailFB[0], a.trailFB[1],
          a.indexBuf} \ {null}

\* The trace of a new operation op on module s with arguments p and touch:
\* before is what the module held, age the steps taken on those buffers.
Begin(op, s, p, touch) ==
    [World EXCEPT !.call = [EmptyCall EXCEPT !.op = op, !.sim = s, !.p = p,
                                              !.touch = touch,
                                              !.before = Handles(World, s),
                                              !.age = ticks[s]]]

\* The calls made on the module contract during one operation, in order.
Log(w, e) == [w EXCEPT !.call.log = Append(@, e)]

SimSetup(w, s, gen, p, env) ==
    LET w0 == Log(w, [fn |-> "setup", sim |-> s])
    IN  IF s \in GridSims THEN GridSetup(w0, s, gen, p, env.rnd, env.out)
        ELSE AgentSetup(w0, gen, p, env.rnd, env.out)

SimTeardown(w, s) ==
    LET w0 == Log(w, [fn |-> "teardown", sim |-> s])
    IN  IF s \in GridSims THEN GridTeardown(w0, s) ELSE AgentTeardown(w0)

SimStep(w, s, p, touch) ==
    LET w0 == Log(w, [fn |-> "step", sim |-> s, p |-> p, touch |-> touch])
        w1 == IF s \in GridSims THEN GridStep(w0, s, p, touch)
              ELSE AgentStep(w0, p, touch)
    IN  [w1 EXCEPT !.call.steps = @ + 1]

SimRender(w, s, cs) ==
    LET w0 == Log(w, [fn |-> "render", sim |-> s])
    IN  IF s \in GridSims THEN GridRender(w0, s, cs) ELSE AgentRender(w0, cs)

\* The buffer a module treats as its current state.
CurrentState(w, s) ==
    IF s \in GridSims THEN w.grid[s].textures[w.grid[s].currentTex]
    ELSE w.agent.stateTex[w.agent.curState]

\* A setup call ran to its last line, and its render targets are usable.
Complete(w) ==
    ~w.call.failed /\ w.call.inits = 1 /\ checkFramebufferStatus(w) = "complete"

\* Every handle some module holds.
Referenced(w) == UNION {Handles(w, s) : s \in Sims}

\* The state an operation leaves.  The data of a texture no module
\* references any more cannot be read again and is dropped from the model;
\* the texture itself stays in gl.live until it is deleted.
CommittedGL(w) ==
    [w.gl EXCEPT !.texData = Restrict(@, Referenced(w)),
                 !.fbTex = Restrict(@, Referenced(w))]

Commit(w) ==
    /\ grid' = w.grid
    /\ agent' = w.agent
    /\ gl' = CommittedGL(w)
    /\ call' = w.call

\* What the model keeps of the context after an operation that ran a setup:
\* the objects some module references, those the operation created and
\* those the module held when it began.  Objects that no handle referenced
\* before the operation can be reached by no later call; they stay
\* allocated in the program and are dropped from the model here.
Forget(w) ==
    [w EXCEPT !.gl.live = @ \cap (Referenced(w) \cup w.call.created \cup w.call.before)]

\* Room left for n more steps on the current buffers of module s.
HistLen(s) == Len(Sample(World, CurrentState(World, s)).hist)
CanStep(s, n) == HistLen(s) + n <= MaxTicks

\* History: the steps a module has taken since its last complete setup.
TicksAfterSetup(s, w) == [ticks EXCEPT ![s] = IF Complete(w) THEN 0 ELSE -1]
TicksAfterSteps(s, n) == [ticks EXCEPT ![s] = IF @ >= 0 THEN @ + n ELSE @]

----------------------------------------------------------------------------
(* Direct calls of the module contract.  The caller keeps one module at a  *)
(* time set up, as the orchestrator does.                                  *)

\* Touch arguments: a stored position is (-1,-1) only before the first
\* pointer-down, when the flag is still false.
Touches ==
    {tch \in [pos : {<<-1, -1>>} \cup Positions, active : BOOLEAN] :
        tch.active => tch.pos \in Positions}

OthersEmpty(s) == \A o \in Sims \ {s} : Handles(World, o) = {}

ApiSetup(s, p, env) ==
    /\ setups < MaxSetups
    /\ OthersEmpty(s)
    /\ LET w == SimSetup(Begin("setup", s, p, NoTouchArg), s, setups + 1, p, env)
       IN  Commit(Forget(w)) /\ ticks' = TicksAfterSetup(s, w)
    /\ setups' = setups + 1
    /\ UNCHANGED <<touchPos, touchActive, pointerDown, held, probe, activeSim, params,
                   speed, loop>>

ApiTeardown(s) ==
    /\ OthersEmpty(s)
    /\ Commit(SimTeardown(Begin("teardown", s, 0, NoTouchArg), s))
    /\ ticks' = [ticks EXCEPT ![s] = -1]
    /\ UNCHANGED <<touchPos, touchActive, pointerDown, held, probe, activeSim, params,
                   speed, loop, setups>>

ApiStep(s, p, touch) ==
    /\ OthersEmpty(s)
    /\ CanStep(s, 1)
    /\ Commit(SimStep(Begin("step", s, p, touch), s, p, touch))
    /\ ticks' = TicksAfterSteps(s, 1)
    /\ UNCHANGED <<touchPos, touchActive, pointerDown, held, probe, activeSim, params,
                   speed, loop, setups>>

ApiRender(s) ==
    /\ OthersEmpty(s)
    /\ Commit(SimRender(Begin("render", s, 0, NoTouchArg), s, 0))
    /\ UNCHANGED <<touchPos, touchActive, pointerDown, held, probe, activeSim, params,
                   speed, loop, setups, ticks>>

----------------------------------------------------------------------------
(* Interaction adapter: interaction.js *)

\* The buttons a pointerdown event can report in e.button; the handler
\* does not read it.
Buttons == {"primary", "secondary"}

PointerDown(uv, b) ==
    /\ held' = b
    /\ pointerDown' = TRUE
    /\ touchPos' = uv
    /\ touchActive' = TRUE
    /\ call' = EventCall
    /\ UNCHANGED <<probe, grid, agent, gl, activeSim, params, speed, loop,
                   setups, ticks>>

\* Mutant: pointermove activates without a button held.
PointerMoveUnguarded(uv) ==
    /\ touchPos' = uv
    /\ touchActive' = TRUE
    /\ call' = EventCall
    /\ UNCHANGED <<grid, agent, gl, pointerDown, held, probe, activeSim, params, speed,
                   loop, setups, ticks>>

PointerMove(uv) ==
    /\ IF pointerDown
       THEN touchPos' = uv /\ touchActive' = TRUE
       ELSE UNCHANGED <<touchPos, touchActive>>
    /\ call' = EventCall
    /\ UNCHANGED <<grid, agent, gl, pointerDown, held, probe, activeSim, params, speed,
                   loop, setups, ticks>>

\* Mutant: the release handler clears pointerDown only.
EndPointerKeepsActive ==
    /\ held' = "none"
    /\ pointerDown' = FALSE
    /\ call' = EventCall
    /\ UNCHANGED <<probe, grid, agent, gl, touchPos, touchActive, activeSim,
                   params, speed, loop, setups, ticks>>

\* endPointer, registered for pointerup, pointerleave and pointercancel
EndPointer ==
    /\ held' = "none"
    /\ pointerDown' = FALSE
    /\ touchActive' = FALSE
    /\ call' = EventCall
    /\ UNCHANGED <<probe, grid, agent, gl, touchPos, activeSim, params, speed,
                   loop, setups, ticks>>

\* frameTick(): the value of touchActive after the call
frameTick(down, active) == IF ~down THEN FALSE ELSE active

----------------------------------------------------------------------------
(* Controls: controls.js *)

DefaultParams == 1

Min(a, b) == IF a < b THEN a ELSE b

\* speedSlider.default of each module, within the modelled range
SpeedDefault(s) ==
    Min(MaxSpeed, CASE s = "rd" -> 10 [] s = "osc" -> 2 [] OTHER -> 1)

\* A parameter slider or select is moved: onParamChange does nothing, the
\* value is read by the next frame.
SetParam(v) ==
    /\ activeSim # NoSim
    /\ v # params
    /\ params' = v
    /\ call' = EventCall
    /\ UNCHANGED <<grid, agent, gl, touchPos, touchActive, pointerDown, held, probe,
                   activeSim, speed, loop, setups, ticks>>

SetSpeed(v) ==
    /\ activeSim # NoSim
    /\ v # speed
    /\ speed' = v
    /\ call' = EventCall
    /\ UNCHANGED <<grid, agent, gl, touchPos, touchActive, pointerDown, held, probe,
                   activeSim, params, loop, setups, ticks>>

\* The language is switched: onLangSwitch builds the controls of the
\* active module again.  buildControls empties the container and creates
\* every input at its default (input.value = ctrl.default, the speed
\* slider at speedSlider.default); nothing calls resetSim.
onLangSwitch ==
    /\ IF activeSim # NoSim
       THEN params' = DefaultParams /\ speed' = SpeedDefault(activeSim)
       ELSE UNCHANGED <<params, speed>>
    /\ call' = [EmptyCall EXCEPT !.op = "langSwitch"]
    /\ UNCHANGED <<grid, agent, gl, touchPos, touchActive, pointerDown, held, probe,
                   activeSim, loop, setups, ticks>>

----------------------------------------------------------------------------
(* Orchestrator: engine.js *)

Touch == [pos |-> touchPos, active |-> touchActive]

\* Mutant: the new module is set up beside the old one.
switchSimNoTeardown(w, id, env) ==
    SimSetup(w, id, setups + 1, DefaultParams, env)

\* switchSim(id) on world w: teardown of the active module, then setup of
\* the new one with the default values of its freshly built controls.
switchSim(w, id, env) ==
    LET w1 == IF activeSim # NoSim THEN SimTeardown(w, activeSim) ELSE w
    IN  SimSetup(w1, id, setups + 1, DefaultParams, env)

\* resetSim() on world w; p is what getParams() returns
resetSim(w, p, env) ==
    SimSetup(SimTeardown(w, activeSim), activeSim, setups + 1, p, env)

\* Mutant: one step per frame whatever the speed.
StepOnce(w, s, p, touch, n) == IF n = 0 THEN w ELSE SimStep(w, s, p, touch)

RECURSIVE StepN(_, _, _, _, _)
StepN(w, s, p, touch, n) ==
    IF n = 0 \/ w.call.threw THEN w
    ELSE StepN(SimStep(w, s, p, touch), s, p, touch, n - 1)

\* The body of animate() for module s: n steps, then one render.  An
\* exception thrown by step leaves animate at once.
animate(w, s, p, n, touch) ==
    LET w1 == StepN(w, s, p, touch, n)
    IN  IF w1.call.threw THEN w1 ELSE SimRender(w1, s, 0)

\* A tab button is clicked; the tabs are built before the loop starts.
SwitchSim(id, env) ==
    /\ setups < MaxSetups
    /\ LET w == switchSim(Begin("switchSim", id, DefaultParams, NoTouchArg), id, env)
       IN  /\ Commit(Forget(w))
           /\ ticks' = [s \in Sims |-> IF s = id /\ Complete(w) THEN 0 ELSE -1]
    /\ activeSim' = id
    /\ params' = DefaultParams
    /\ speed' = SpeedDefault(id)
    /\ setups' = setups + 1
    /\ UNCHANGED <<touchPos, touchActive, pointerDown, held, probe, loop>>

ResetSim(env) ==
    /\ activeSim # NoSim
    /\ setups < MaxSetups
    /\ LET w == resetSim(Begin("resetSim", activeSim, params, NoTouchArg),
                         params, env)
       IN  Commit(Forget(w)) /\ ticks' = TicksAfterSetup(activeSim, w)
    /\ setups' = setups + 1
    /\ UNCHANGED <<touchPos, touchActive, pointerDown, held, probe, activeSim, params,
                   speed, loop>>

\* frameTick() is called after the render, unless step threw.
Tick(w) == IF w.call.threw THEN w ELSE Log(w, [fn |-> "frameTick"])

\* The modules that declare a control with resetsState: the oscillator
\* lattice (spread, omega).
resetsState(s) == s = "osc"

\* Mutant: the reset is made with the values before the change.
getParamsStale(old, new) == old

\* getParams() inside resetSim, called from the input handler: the value of
\* the control is already the new one.
getParams(old, new) == new

\* The input handler of a control that carries resetsState: onReset() is
\* resetSim().  (SetParam is the same handler for a control without it.)
SetResetParam(v, env) ==
    /\ activeSim # NoSim
    /\ resetsState(activeSim)
    /\ v # params
    /\ setups < MaxSetups
    /\ params' = v
    /\ LET p == getParams(params, v)
           w == resetSim(Begin("inputReset", activeSim, p, NoTouchArg), p, env)
       IN  Commit(Forget(w)) /\ ticks' = TicksAfterSetup(activeSim, w)
    /\ setups' = setups + 1
    /\ UNCHANGED <<touchPos, touchActive, pointerDown, held, probe, activeSim,
                   speed, loop>>

\* requestAnimationFrame(animate) is the last statement of animate.
AfterFrame(w) == IF w.call.threw THEN "stopped" ELSE "scheduled"

\* One animation frame.  When step throws, animate is left before
\* frameTick and requestAnimationFrame: the loop is not scheduled again.
Animate ==
    /\ loop = "scheduled"
    /\ activeSim # NoSim
    /\ CanStep(activeSim, speed)
    /\ LET w == animate(Begin("animate", activeSim, params, Touch),
                        activeSim, params, speed, Touch)
       IN  /\ Commit(Tick(w))
           /\ loop' = AfterFrame(w)
           /\ touchActive' = IF w.call.threw THEN touchActive
                             ELSE frameTick(pointerDown, touchActive)
           /\ ticks' = TicksAfterSteps(activeSim, w.call.steps)
    /\ UNCHANGED <<touchPos, pointerDown, held, probe, activeSim, params, speed, setups>>

\* The callback init() hands to waitForKaTeX: switchSim(simOrder[0]), then
\* the first animate() in the same task.
Start(first, env) ==
    /\ loop = "unstarted"
    /\ setups < MaxSetups
    /\ LET w1 == switchSim(Begin("start", first, DefaultParams, Touch), first, env)
           w2 == animate(w1, first, DefaultParams, SpeedDefault(first), Touch)
       IN  /\ Commit(Forget(Tick(w2)))
           /\ loop' = AfterFrame(w2)
           /\ touchActive' = IF w2.call.threw THEN touchActive
                             ELSE frameTick(pointerDown, touchActive)
           /\ ticks' = [s \in Sims |->
                          IF s = first /\ Complete(w1) THEN w2.call.steps ELSE -1]
    /\ activeSim' = first
    /\ params' = DefaultParams
    /\ speed' = SpeedDefault(first)
    /\ setups' = setups + 1
    /\ UNCHANGED <<touchPos, pointerDown, held, probe>>

----------------------------------------------------------------------------
(* Specifications *)

----------------------------------------------------------------------------
(* Shader arithmetic: one invocation of a kernel on one texel.  Real       *)
(* quantities are fixed-point integers, in thousandths.                    *)

\* Bounds: the lattice of the grid models, scaled down
SIM_W == 4
SIM_H == 3

NoProbe == [fn |-> "none"]

programVars == <<grid, agent, gl, call, touchPos, touchActive, pointerDown,
                 held, activeSim, params, speed, loop, setups, ticks>>

Max(a, b) == IF a > b THEN a ELSE b

\* Mutant: the new concentrations are stored as computed.
clampNone(x, minVal, maxVal) == x

\* GLSL clamp(x, minVal, maxVal) = min(max(x, minVal), maxVal)
clamp(x, minVal, maxVal) == Min(Max(x, minVal), maxVal)

\* texture2D on a NEAREST texture with TEXTURE_WRAP_S/T = CLAMP_TO_EDGE:
\* the texel fetched along one axis for the coordinate (i + 1/2) / n.
Texel(i, n) == clamp(i, 0, n - 1)

\* The four reads of both step shaders at the cell (x, y), where v_uv is
\* the cell centre, dx = (1 / u_resolution.x, 0), dy = (0, 1 / u_resolution.y).
GridNeighbours(x, y) ==
    [up    |-> <<Texel(x, SIM_W), Texel(y + 1, SIM_H)>>,
     down  |-> <<Texel(x, SIM_W), Texel(y - 1, SIM_H)>>,
     left  |-> <<Texel(x - 1, SIM_W), Texel(y, SIM_H)>>,
     right |-> <<Texel(x + 1, SIM_W), Texel(y, SIM_H)>>]

ProbeNeighbours(s, x, y) ==
    /\ probe = NoProbe
    /\ probe' = [fn |-> "neighbours", sim |-> s, x |-> x, y |-> y,
                 reads |-> GridNeighbours(x, y)]
    /\ UNCHANGED programVars

\* Fixed point: 1.0 is Unit thousandths.
Unit == 1000

Abs(x) == IF x < 0 THEN -x ELSE x

\* GLSL floor(x), and fract(x) = x - floor(x)
floor(x) == (x \div Unit) * Unit

\* Mutant: the position is stored as integrated.
fractNone(x) == x

fract(x) == x - floor(x)

\* A vector of size v along one axis; length() of such a vector is exact.
Along(axis, v) == IF axis = 1 THEN <<v, 0>> ELSE <<0, v>>
length(v) == Abs(v[1]) + Abs(v[2])

\* v / spd * to, for v along one axis and spd = length(v)
Rescale(v, spd, to) == <<(v[1] * to) \div spd, (v[2] * to) \div spd>>

\* STEP_FS "Integrate": the speed limit u_maxSpeed, the floor 0.12 *
\* u_maxSpeed, then pos += vel and pos = fract(pos).
Integrate(pos, vel, accel, u_maxSpeed) ==
    LET v1 == <<vel[1] + accel[1], vel[2] + accel[2]>>
        spd == length(v1)
        v2 == IF spd > u_maxSpeed THEN Rescale(v1, spd, u_maxSpeed) ELSE v1
        v3 == IF spd > 0 /\ spd * 100 < u_maxSpeed * 12
              THEN Rescale(v2, spd, (u_maxSpeed * 12) \div 100)
              ELSE v2
        p == <<pos[1] + v3[1], pos[2] + v3[2]>>
    IN  [integrated |-> p, pos |-> <<fract(p[1]), fract(p[2])>>, vel |-> v3]

\* Inputs of the update pass: positions in [0, 1), stored velocities,
\* accelerations, and u_maxSpeed: 0.004 (default), 0.008 (the slider's
\* maximum) and 0.025 (beyond the slider).
Coordinates == {0, 5, 500, 995}
Velocities == {-20, -8, -1, 0, 1, 8, 20}
Accelerations == {-2, 0, 2}
MaxSpeeds == {4, 8, 25}

ProbeIntegrate(pos, axis, v, a, u_maxSpeed) ==
    /\ probe = NoProbe
    /\ probe' = [fn |-> "integrate", pos |-> pos, vel |-> Along(axis, v),
                 accel |-> Along(axis, a), u_maxSpeed |-> u_maxSpeed,
                 out |-> Integrate(pos, Along(axis, v), Along(axis, a),
                                   u_maxSpeed)]
    /\ UNCHANGED programVars

\* a * b in fixed point
Mul(a, b) == (a * b) \div Unit

\* u_Du, u_Dv of getStepUniforms: 0.16 and 0.08
Du == 160
Dv == 80

\* reaction-diffusion STEP_SHADER main, from the laplacians on: strength is
\* 1 - dist / u_touchRadius inside the touch radius, and -1 when the touch
\* branch is not taken.
RdStep(u, v, lap_u, lap_v, u_f, u_k, strength) ==
    LET uvv == Mul(Mul(u, v), v)
        new_u == u + Mul(Du, lap_u) - uvv + Mul(u_f, Unit - u)
        new_v == v + Mul(Dv, lap_v) + uvv - Mul(u_f + u_k, v)
        t_u == IF strength >= 0 THEN new_u - Mul(100, strength) ELSE new_u
        t_v == IF strength >= 0 THEN new_v + Mul(200, strength) ELSE new_v
    IN  [raw |-> <<t_u, t_v>>,
         u |-> clamp(t_u, 0, Unit), v |-> clamp(t_v, 0, Unit)]

\* reaction-diffusion initState: u = 1, v = 0, and in a seed patch
\* u = 0.5 + random * 0.1, v = 0.25 + random * 0.1 (random in [0, 1)).
RdSeed(patch, rnd_u, rnd_v) ==
    IF patch
    THEN [u |-> 500 + Mul(rnd_u, 100), v |-> 250 + Mul(rnd_v, 100)]
    ELSE [u |-> Unit, v |-> 0]

\* Inputs: stored concentrations, laplacians (four neighbours minus four
\* times the cell), feed and kill within the sliders (0.01..0.08 and
\* 0.04..0.075) and beyond them, touch strengths, Math.random() values.
Concentrations == {0, 500, Unit}
Laplacians == {-4000, 0, 4000}
Feeds == {-1000, 10, 80, 5000}
Kills == {-1000, 40, 75, 5000}
Strengths == {-1, 0, Unit}
Randoms == {0, 500, 999}

ProbeRdStep(u, v, lap_u, lap_v, u_f, u_k, strength) ==
    /\ probe = NoProbe
    /\ probe' = [fn |-> "rdStep", u |-> u, v |-> v, u_f |-> u_f, u_k |-> u_k,
                 strength |-> strength,
                 out |-> RdStep(u, v, lap_u, lap_v, u_f, u_k, strength)]
    /\ UNCHANGED programVars

ProbeRdSeed(patch, rnd_u, rnd_v) ==
    /\ probe = NoProbe
    /\ probe' = [fn |-> "rdSeed", patch |-> patch,
                 out |-> RdSeed(patch, rnd_u, rnd_v)]
    /\ UNCHANGED programVars

\* kuramoto STEP_SHADER: const float PI2 = 6.28318530718
PI2 == 6283

\* GLSL mod(x, y) = x - y * floor(x / y)
mod(x, y) == x - y * (x \div y)

\* GLSL mix(x, y, a) = x * (1 - a) + y * a
mix(x, y, a) == Mul(x, Unit - a) + Mul(y, a)

\* kuramoto STEP_SHADER main, from the coupling sum on: spiral is
\* angle + dist * 30.0 and strength 1 - dist / u_touchRadius inside the
\* touch radius; strength is -1 when the touch branch is not taken.
OscStep(theta, omega, coupling, u_K, u_dt, spiral, strength) ==
    LET advanced == theta + Mul(u_dt, omega + Mul(u_K \div 4, coupling))
        touched == IF strength >= 0
                   THEN mix(advanced, spiral, Mul(strength, 800))
                   ELSE advanced
        reduced == mod(touched, PI2)
    IN  [raw |-> touched, reduced |-> reduced,
         theta |-> IF reduced < 0 THEN reduced + PI2 ELSE reduced]

\* kuramoto initState: theta = Math.random() * 2 pi in every cell, then,
\* in the cells of a spiral seed, theta = Math.atan2(dy, dx) + r * 0.4
\* with 0 < r < sr < 30.
OscSeed(inSpiral, rnd, atan2, r) ==
    IF inSpiral
    THEN [theta |-> atan2 + Mul(r, 400)]
    ELSE [theta |-> Mul(rnd, PI2)]

\* Inputs: stored phases, frequencies, coupling sums (four sines), K and
\* dt, spirals, Math.atan2 values in (-pi, pi], radii of a spiral seed.
Phases == {0, 3000, PI2 - 1}
Frequencies == {-9000, 600, 9000}
Couplings == {-4000, 0, 4000}
Ks == {1000, 8000}
Dts == {100, 1000}
Spirals == {-3000, 4900}
Angles == {-3141, -1571, 0, 1571, 3141}
Radii == {1000, 20000}

ProbeOscStep(theta, omega, coupling, u_K, u_dt, spiral, strength) ==
    /\ probe = NoProbe
    /\ probe' = [fn |-> "oscStep", theta |-> theta, strength |-> strength,
                 out |-> OscStep(theta, omega, coupling, u_K, u_dt, spiral,
                                 strength)]
    /\ UNCHANGED programVars

ProbeOscSeed(inSpiral, rnd, atan2, r) ==
    /\ probe = NoProbe
    /\ probe' = [fn |-> "oscSeed", inSpiral |-> inSpiral,
                 out |-> OscSeed(inSpiral, rnd, atan2, r)]
    /\ UNCHANGED programVars

\* TRAIL_FADE_FS on one texel: texture2D(u_trail, v_uv) * u_persistence
FadeTexel(v, u_persistence) == v * u_persistence

\* BOID_DRAW under blendFunc(ONE, ONE) on a texel no point sprite covers:
\* the destination plus nothing.
UncoveredTexel(v) == v + 0

\* The intensity of a trail texel no sprite covers after the draw calls ds
\* on the trail framebuffers.
RECURSIVE TrailTexel(_, _)
TrailTexel(v, ds) ==
    IF ds = <<>> THEN v
    ELSE TrailTexel(IF Head(ds).prog.role = "trailFade"
                    THEN FadeTexel(v, Head(ds).uniforms.u_persistence)
                    ELSE UncoveredTexel(v),
                    Tail(ds))

TrailValues == {0, 3, 5}

\* webgl.js: the export resolution (1800 x 1200)
EXPORT_W == 1800
EXPORT_H == 1200

\* takeSnapshot(canvas, sim, renderFn) on a canvas of size orig.  The
\* outcomes say whether the first renderFn(), canvas.toDataURL() and the
\* second renderFn() return or throw, and whether fetch is answered; the
\* function has no try: a throw leaves it at once.
takeSnapshot(orig, o) ==
    LET export == <<EXPORT_W, EXPORT_H>>
        s0 == [canvas |-> export, renders |-> <<export>>, threw |-> TRUE,
               sent |-> "nothing"]
    IN  IF o.render1 = "throws" \/ o.encode = "throws" THEN s0
        ELSE LET s1 == [s0 EXCEPT !.canvas = orig, !.renders = Append(@, orig)]
             IN  IF o.render2 = "throws" THEN s1
                 ELSE [s1 EXCEPT !.threw = FALSE,
                                 !.sent = IF o.fetch = "ok" THEN "server"
                                          ELSE "download"]

ProbeSnapshot(orig, o) ==
    /\ probe = NoProbe
    /\ probe' = [fn |-> "takeSnapshot", canvas |-> orig, o |-> o,
                 out |-> takeSnapshot(orig, o)]
    /\ UNCHANGED programVars

\* i18n.js.  A text is written <<owner, key, language>>.
\* The core table (one of its keys; no module declares a core key).
translations ==
    [k \in {"title"} |-> [l \in {"cs", "en"} |-> <<"core", k, l>>]]

\* sim.translations: the tab label of the module and its description, the
\* latter under the key "desc" in every module.
Fragment(s) ==
    [k \in {"tab_" \o s, "desc"} |-> [l \in {"cs", "en"} |-> <<s, k, l>>]]

\* mergeTranslations(fragment): translations[key] = langMap for every key
mergeTranslations(table, fragment) ==
    [k \in DOMAIN table \cup DOMAIN fragment |->
        IF k \in DOMAIN fragment THEN fragment[k] ELSE table[k]]

\* registerSim(sim) for each module of order, in turn: the table after.
RECURSIVE registerSim(_, _)
registerSim(table, order) ==
    IF order = <<>> THEN table
    ELSE registerSim(mergeTranslations(table, Fragment(Head(order))), Tail(order))

\* t(key) with currentLang = lang
t(table, key, lang) ==
    IF key \notin DOMAIN table THEN key ELSE table[key][lang]

\* The registration orders of one, two or all three modules.
Orders ==
    {o \in UNION {[1..n -> Sims] : n \in 1..3} :
        \A i, j \in DOMAIN o : i # j => o[i] # o[j]}

ProbeTranslate(order, active, key, lang) ==
    /\ probe = NoProbe
    /\ probe' = [fn |-> "t", order |-> order, sim |-> active, key |-> key,
                 lang |-> lang,
                 out |-> t(registerSim(translations, order), key, lang)]
    /\ UNCHANGED programVars

Init ==
    /\ grid = [s \in GridSims |-> EmptyGrid]
    /\ agent = EmptyAgent
    /\ gl \in {EmptyGL(vtu) : vtu \in VertexTextureUnits}
             \cup {[EmptyGL(4) EXCEPT !.fbStatus = "incomplete"]}
    /\ call = EmptyCall
    /\ touchPos = <<-1, -1>>
    /\ touchActive = FALSE
    /\ pointerDown = FALSE
    /\ held = "none"
    /\ activeSim = NoSim
    /\ params = DefaultParams
    /\ speed = 1
    /\ loop = "unstarted"
    /\ setups = 0
    /\ ticks = [s \in Sims |-> -1]
    /\ probe = NoProbe

\* The module contract driven directly, with any arguments.
Next ==
    \/ \E s \in Sims, p \in ParamValues : \E env \in Envs(s) : ApiSetup(s, p, env)
    \/ \E s \in Sims : ApiTeardown(s)
    \/ \E s \in Sims, p \in ParamValues, touch \in Touches : ApiStep(s, p, touch)
    \/ \E s \in Sims : ApiRender(s)

Spec == Init /\ [][Next]_vars

\* The program: pointer events, controls and the orchestrator.
NextApp ==
    \/ \E uv \in Positions, b \in Buttons : PointerDown(uv, b)
    \/ \E uv \in Positions : PointerMove(uv)
    \/ EndPointer
    \/ \E v \in ParamValues : SetParam(v)
    \/ \E v \in 1..MaxSpeed : SetSpeed(v)
    \/ onLangSwitch
    \/ \E first \in Sims : \E env \in Envs(first) : Start(first, env)
    \/ \E id \in Sims : \E env \in Envs(id) : SwitchSim(id, env)
    \/ \E env \in Envs(activeSim) : ResetSim(env)
    \/ \E v \in ParamValues : \E env \in Envs(activeSim) : SetResetParam(v, env)
    \/ Animate

AppSpec == Init /\ [][NextApp]_vars

\* One call of a kernel on one texel, or of a helper, with any inputs.
NextKernel ==
    \/ \E s \in GridSims, x \in 0..(SIM_W - 1), y \in 0..(SIM_H - 1) :
            ProbeNeighbours(s, x, y)
    \/ \E pos \in Coordinates \X Coordinates, axis \in {1, 2},
          v \in Velocities, a \in Accelerations, m \in MaxSpeeds :
            ProbeIntegrate(pos, axis, v, a, m)
    \/ \E u \in Concentrations, v \in Concentrations, lap_u \in Laplacians,
          lap_v \in Laplacians, f \in Feeds, k \in Kills, st \in Strengths :
            ProbeRdStep(u, v, lap_u, lap_v, f, k, st)
    \/ \E patch \in BOOLEAN, rnd_u \in Randoms, rnd_v \in Randoms :
            ProbeRdSeed(patch, rnd_u, rnd_v)
    \/ \E theta \in Phases, omega \in Frequencies, c \in Couplings,
          K \in Ks, dt \in Dts, sp \in Spirals, st \in Strengths :
            ProbeOscStep(theta, omega, c, K, dt, sp, st)
    \/ \E inSpiral \in BOOLEAN, rnd \in Randoms, a \in Angles, r \in Radii :
            ProbeOscSeed(inSpiral, rnd, a, r)
    \/ \E orig \in {<<SIM_W, SIM_H>>, <<2 * SIM_W, 2 * SIM_H>>},
          o \in [render1 : {"ok", "throws"}, encode : {"ok", "throws"},
                 render2 : {"ok", "throws"}, fetch : {"ok", "fails"}] :
            ProbeSnapshot(orig, o)
    \/ \E order \in Orders, lang \in {"cs", "en"} :
          \E active \in {order[i] : i \in DOMAIN order} :
             \E key \in DOMAIN Fragment(active) :
                ProbeTranslate(order, active, key, lang)

KernelSpec == Init /\ [][NextKernel]_vars

\* waitForKaTeX(callback), studied on its own: probe holds whether the
\* katex global is defined, the closure's attempts counter, the state of
\* the interval timer and how many times callback has been called.

\* Mutant: gives up one poll later.
giveUpLate(attempts) == attempts > 51

\* The test of the give-up branch
giveUp(attempts) == attempts > 50

\* The call init() makes; loaded says whether the script has run by then.
waitForKaTeX(loaded) ==
    /\ probe = NoProbe
    /\ probe' = [fn |-> "waitForKaTeX", katex |-> loaded, attempts |-> 0,
                 interval |-> IF loaded THEN "none" ELSE "active",
                 callbacks |-> IF loaded THEN 1 ELSE 0]
    /\ UNCHANGED programVars

\* The deferred KaTeX script runs and defines the global.
KatexLoads ==
    /\ probe.fn = "waitForKaTeX"
    /\ ~probe.katex
    /\ probe' = [probe EXCEPT !.katex = TRUE]
    /\ UNCHANGED programVars

\* The interval callback, every 100 ms while the timer is set.
Poll ==
    /\ probe.fn = "waitForKaTeX"
    /\ probe.interval = "active"
    /\ LET attempts == probe.attempts + 1
       IN  probe' = IF probe.katex \/ giveUp(attempts)
                    THEN [probe EXCEPT !.attempts = attempts,
                                       !.interval = "cleared",
                                       !.callbacks = @ + 1]
                    ELSE [probe EXCEPT !.attempts = attempts]
    /\ UNCHANGED programVars

NextBoot ==
    \/ \E loaded \in BOOLEAN : waitForKaTeX(loaded)
    \/ KatexLoads
    \/ Poll

\* init() runs on page load and a set interval timer keeps firing.
BootSpec ==
    /\ Init
    /\ [][NextBoot]_vars
    /\ WF_vars(\E loaded \in BOOLEAN : waitForKaTeX(loaded))
    /\ WF_vars(Poll)

----------------------------------------------------------------------------
(* Properties *)

\* The current-buffer indices of module s.
Indices(s) ==
    IF s \in GridSims THEN <<grid[s].currentTex>>
    ELSE <<agent.curState, agent.curTrail>>

\* The kernel programs the step of module s binds.
StepPrograms(s) ==
    IF s \in GridSims THEN {grid[s].stepProg}
    ELSE {agent.stepProg, agent.trailFadeProg, agent.boidDrawProg}

\* C1: double-buffer separation.  In every dispatch issued by a step, of
\* either engine, the texture bound as input is not the texture attached to
\* the framebuffer written.  The grid step reads textures[currentTex] and
\* writes framebuffers[1 - currentTex] (indices as of the start of the step;
\* the step has flipped currentTex since).  The three passes of the agent
\* step read stateTex[cur], trailTex[cur] and the new state, and write the
\* other state texture and the other trail texture.  Framebuffer i of every
\* pair is attached to texture i.
C1_DoubleBufferSeparation ==
    /\ \A s \in GridSims, i \in 0..1 :
          grid[s].framebuffers[i] # null =>
             Attachment(World, grid[s].framebuffers[i]) = grid[s].textures[i]
    /\ \A i \in 0..1 :
          /\ agent.stateFB[i] # null =>
                Attachment(World, agent.stateFB[i]) = agent.stateTex[i]
          /\ agent.trailFB[i] # null =>
                Attachment(World, agent.trailFB[i]) = agent.trailTex[i]
    /\ call.op = "step" =>
          \A i \in DOMAIN call.dispatches :
             call.dispatches[i].input # call.dispatches[i].target
    /\ (call.op = "step" /\ call.sim \in GridSims /\ call.dispatches # <<>>) =>
          LET g == grid[call.sim]
              d == call.dispatches[1]
          IN  /\ Len(call.dispatches) = 1
              /\ d.input = g.textures[1 - g.currentTex]
              /\ d.fb = g.framebuffers[g.currentTex]
    /\ (call.op = "step" /\ call.sim = "boids" /\ ticks["boids"] >= 1) =>
          LET d == call.dispatches
          IN  /\ Len(d) = 3
              /\ d[1].input = agent.stateTex[1 - agent.curState]
              /\ d[1].target = agent.stateTex[agent.curState]
              /\ d[2].input = agent.trailTex[1 - agent.curTrail]
              /\ d[2].target = agent.trailTex[agent.curTrail]
              /\ d[3].input = agent.stateTex[agent.curState]
              /\ d[3].target = agent.trailTex[agent.curTrail]

\* A step on buffers that a complete setup created and that have been
\* stepped MaxTicks times, so that both directions of the flip were taken.
C1_Witness ==
    /\ call.op = "step"
    /\ call.dispatches # <<>>
    /\ ticks[call.sim] = MaxTicks
    /\ call.dispatches[1].input \in DOMAIN gl.texData
    /\ call.dispatches[1].target \in DOMAIN gl.texData

\* C2: a step invoked while one of the kernel programs it binds is missing
\* leaves every current-buffer index unchanged (currentTex; curState and
\* curTrail): an index changes only in a step that had all its programs.
C2_StepWithMissingProgramKeepsIndices ==
    [][\A s \in Sims :
          (call'.op = "step" /\ call'.sim = s /\ null \in StepPrograms(s))
             => Indices(s)' = Indices(s)]_vars

\* C3: a setup (on an engine that holds nothing) in which a kernel fails to
\* compile or link returns with every handle of the engine empty and with
\* nothing that this call created still allocated.
C3_FailedSetupLeavesNothing ==
    (call.op = "setup" /\ call.failed /\ call.before = {}) =>
       /\ Handles(World, call.sim) = {}
       /\ call.created \cap gl.live = {}

\* C4: after a setup made while the engine still holds the objects of an
\* earlier setup, each of those objects has been released or is still
\* referenced by the engine.
C4_SecondSetupDoesNotLeak ==
    (call.op = "setup" /\ call.before # {}) =>
       \A h \in call.before : h \notin gl.live \/ h \in Handles(World, call.sim)

\* C5: teardown of an engine that holds nothing (never set up, or just torn
\* down) issues no delete call, leaves the context as it was, every handle
\* empty and every current index 0.
C5_TeardownOnEmptyIsNoOp ==
    [][\A s \in Sims :
          (call'.op = "teardown" /\ call'.sim = s /\ Handles(World, s) = {}) =>
             /\ call'.deletes = 0
             /\ call'.deleted = {}
             /\ gl' = gl
             /\ Handles(World, s)' = {}
             /\ Indices(s)' = IF s \in GridSims THEN <<0>> ELSE <<0, 0>>]_vars

\* A teardown that found nothing to release, after a setup had been made in
\* the same context.
C5_Witness ==
    /\ call.op = "teardown"
    /\ call.before = {}
    /\ call.deletes = 0
    /\ setups >= 1
    /\ Handles(World, call.sim) = {}

\* An engine and a context like this one in which nothing was ever set up.
EmptyWorld ==
    [grid |-> [s \in GridSims |-> EmptyGrid], agent |-> EmptyAgent,
     gl |-> [EmptyGL(gl.maxVTU) EXCEPT !.fbStatus = gl.fbStatus],
     call |-> EmptyCall]

\* The environment of a setup call in which every kernel builds.
GoodEnv(s, rnd) == [rnd |-> rnd, out |-> AllOk(s)]

\* C6: after any number of steps, resetSim (teardown, then setup with the
\* current parameters) leaves the engine as a first-time setup with those
\* parameters does: every handle of the earlier run (both buffers, both
\* render targets, the programs) has been released, the initializer ran
\* once, both new buffers hold its output, the current indices are 0, and
\* the handles and the data are those a setup on an empty engine produces.
C6_ResetEqualsFirstSetup ==
    (call.op = "resetSim" /\ Complete(World)) =>
       LET s == call.sim IN
       /\ call.before \subseteq call.deleted
       /\ call.before \cap gl.live = {}
       /\ call.deletes = Cardinality(call.before)
       /\ call.age >= 0 =>
             Cardinality(call.deleted) = IF s \in GridSims THEN 6 ELSE 13
       /\ call.inits = 1
       /\ Indices(s) = IF s \in GridSims THEN <<0>> ELSE <<0, 0>>
       /\ s \in GridSims =>
             /\ Sample(World, grid[s].textures[0]) = Sample(World, grid[s].textures[1])
             /\ \E rnd \in Seeds :
                   Sample(World, grid[s].textures[0]) = InitState(s, call.p, rnd)
       /\ s = "boids" =>
             /\ Sample(World, agent.stateTex[0]) = Sample(World, agent.stateTex[1])
             /\ \E rnd \in Seeds :
                   Sample(World, agent.stateTex[0]) = InitAgents(rnd)
       /\ \E rnd \in Seeds :
             LET first == SimSetup(EmptyWorld, s, setups, call.p, GoodEnv(s, rnd))
             IN  /\ s \in GridSims => grid[s] = first.grid[s]
                 /\ s = "boids" => agent = first.agent
                 /\ Handles(World, s) = Handles(first, s)
                 /\ \A h \in Handles(World, s) :
                       /\ Sample(World, h) = Sample(first, h)
                       /\ Attachment(World, h) = Attachment(first, h)

\* A reset that succeeded on an engine whose buffers had been stepped
\* MaxTicks times since a complete setup.
C6_Witness ==
    /\ call.op = "resetSim"
    /\ Complete(World)
    /\ call.age = MaxTicks
    /\ call.before # {}
    /\ ticks[call.sim] = 0

\* The data of the current state buffer of module s.
Content(s) == Sample(World, CurrentState(World, s))

\* One application of the step kernel of module s to data, with the touch
\* argument the step call was given.
Kernel(s, data, touch) ==
    IF s \in GridSims THEN GridKernel(data, GridTouchUniform(touch))
    ELSE LET u == AgentTouchUniforms(touch)
         IN  AgentKernel(data, u.u_touch, u.u_touchActive, u.u_touchButton)

RECURSIVE KernelN(_, _, _, _)
KernelN(s, data, touch, n) ==
    IF n = 0 THEN data ELSE KernelN(s, Kernel(s, data, touch), touch, n - 1)

\* C7: each step call advances exactly one tick.  With k the number of step
\* calls made since the last complete setup, every current index is k mod 2
\* and the current buffer is the seed with the step kernel applied k times;
\* a frame of n steps leaves the current buffer equal to the kernel applied
\* n times to what the frame found, so that two steps in one frame and one
\* step in each of two frames give the same state.
C7_StepAdvancesOneTick ==
    [][\A s \in Sims :
          /\ ticks'[s] >= 0 =>
                /\ Indices(s)' = IF s \in GridSims THEN <<ticks'[s] % 2>>
                                 ELSE <<ticks'[s] % 2, ticks'[s] % 2>>
                /\ Len(Content(s)'.hist) = ticks'[s]
                /\ \A i \in 1..ticks'[s] : Content(s)'.hist[i][1] = "step"
                /\ \E rnd \in Seeds, p \in ParamValues :
                      Content(s)'.seed \in {InitState(s, p, rnd).seed, InitAgents(rnd).seed}
          /\ (call' # call /\ call'.op = "animate" /\ call'.sim = s /\ ticks[s] >= 0) =>
                /\ call'.steps = speed
                /\ ticks'[s] = ticks[s] + speed
                /\ Content(s)' = KernelN(s, Content(s), call'.touch, speed)]_vars

\* The second of two frames of one step each, without touch, on buffers a
\* complete setup created: the state is the seed stepped twice.
C7_Witness ==
    /\ call.op = "animate"
    /\ call.steps = 1
    /\ call.age = 1
    /\ ticks[call.sim] = 2
    /\ ~call.touch.active
    /\ Content(call.sim).hist = <<<<"step", NoTouch>>, <<"step", NoTouch>>>>

\* C8: render has no effect on simulation state.  A render call leaves the
\* indices, every handle, every buffer's data and the context unchanged; it
\* draws once to the canvas, reading the buffer the current index names
\* (textures[currentTex]; trailTex[curTrail]), which holds what the most
\* recent step wrote, or the seed when no step has run.
C8_RenderLeavesStateAlone ==
    [][\A s \in Sims :
          (call'.op = "render" /\ call'.sim = s) =>
             LET shown == IF s \in GridSims THEN grid[s].textures[grid[s].currentTex]
                          ELSE agent.trailTex[agent.curTrail]
                 prog == IF s \in GridSims THEN grid[s].displayProg
                         ELSE agent.displayProg
                 d == call'.dispatches
             IN  /\ grid' = grid
                 /\ agent' = agent
                 /\ gl' = gl
                 /\ ticks' = ticks
                 /\ call'.deletes = 0 /\ call'.created = {}
                 /\ Len(d) = IF prog = null THEN 0 ELSE 1
                 /\ prog # null =>
                       /\ d[1].input = shown
                       /\ d[1].fb = null
                       /\ d[1].target = Screen
                 /\ (prog # null /\ ticks[s] >= 0 /\ s \in GridSims) =>
                       Sample(World, d[1].input) = Content(s)
                 /\ (prog # null /\ ticks[s] >= 0 /\ s = "boids") =>
                       Sample(World, d[1].input) =
                          IF ticks[s] = 0 THEN ZeroTrail
                          ELSE [Sample(World, d[1].input) EXCEPT
                                   !.hist[2 * ticks[s]] = <<"points", Content(s)>>]]_vars

\* A render of buffers that have been stepped an odd number of times, so
\* that the current index is 1.
C8_Witness ==
    /\ call.op = "render"
    /\ Len(call.dispatches) = 1
    /\ ticks[call.sim] = 1
    /\ Indices(call.sim)[1] = 1
    /\ call.dispatches[1].input \in DOMAIN gl.texData

\* C9: touch sentinel.  A step whose touch argument is inactive uploads
\* (-1,-1) as the touch coordinate whatever position the argument holds,
\* and leaves the engine, every buffer and the dispatches it issued equal to
\* those of the same step in a run where interaction is disabled (position
\* never set, flag never raised).
C9_InactiveTouchIsSentinel ==
    [][\A s \in Sims, p \in ParamValues :
          (call'.op = "step" /\ call'.sim = s /\ call'.p = p /\ ~call'.touch.active) =>
             LET w == SimStep(Begin("step", s, p, NoTouchArg), s, p, NoTouchArg)
                 d == call'.dispatches
             IN  /\ grid' = w.grid
                 /\ agent' = w.agent
                 /\ gl' = CommittedGL(w)
                 /\ d = w.call.dispatches
                 /\ \A i \in DOMAIN d :
                       "u_touch" \in DOMAIN d[i].uniforms =>
                          d[i].uniforms.u_touch = <<-1, -1>>]_vars

\* A step that dispatched with the flag lowered while a position was stored.
C9_Witness ==
    /\ call.op = "step"
    /\ ~call.touch.active
    /\ call.touch.pos \in Positions
    /\ call.dispatches # <<>>
    /\ ticks[call.sim] >= 1

\* C10: interaction lifecycle.  The flag is raised only by pointerdown, or
\* by pointermove while a pointer is down: it is never up unless a pointer
\* is down.  Whenever no pointer is down (after pointerup, pointerleave or
\* pointercancel, until the next pointerdown) the flag is down, and a
\* pointermove alone does not raise it.  Only the event handlers change the
\* interaction state: a transition that changes it runs no step, render,
\* setup or teardown, and one that runs any of these leaves it as it was.
C10_InteractionLifecycle ==
    [][/\ touchActive' => pointerDown'
       /\ (~pointerDown /\ ~pointerDown') => ~touchActive'
       /\ <<touchPos, touchActive, pointerDown>>' # <<touchPos, touchActive, pointerDown>>
             => /\ call'.op = "event"
                /\ UNCHANGED <<grid, agent, gl, ticks, setups, loop>>
       /\ call'.op # "event" => UNCHANGED <<touchPos, touchActive, pointerDown>>]_vars

\* In a running loop that has stepped the simulation, the pointer was
\* pressed and has been released: the position stored by pointerdown is
\* kept, the flag is down.
C10_Witness ==
    /\ ~pointerDown
    /\ ~touchActive
    /\ touchPos \in Positions
    /\ loop = "scheduled"
    /\ call.op = "event"
    /\ activeSim # NoSim
    /\ ticks[activeSim] >= 1

\* C11: touch response selectable by pointer button.  When a frame of the
\* loop steps the agent engine with an active touch, the update pass
\* receives u_touchButton = 1 if the secondary button is the one held on
\* the canvas and 0 if the primary button is, and the kernel applies the
\* touch response so selected.
C11_TouchButtonSelectsResponse ==
    (/\ call.op \in {"animate", "start"}
     /\ call.sim = "boids"
     /\ call.touch.active
     /\ call.steps = 1
     /\ ticks["boids"] >= 1) =>
        LET d == call.dispatches[1]
            selector == IF held = "secondary" THEN 1 ELSE 0
        IN  /\ d.uniforms.u_touchButton = selector
            /\ Sample(World, d.target).hist[Len(Sample(World, d.target).hist)]
                  = <<"step", <<d.uniforms.u_touch, selector>>>>

\* C12: for every cell of the lattice, first and last rows and columns
\* included, the four neighbour values read by the reaction-diffusion and the
\* oscillator step kernels are those of the cells (x +- 1 mod W, y) and
\* (x, y +- 1 mod H).
C12_ToroidalNeighbours ==
    probe.fn = "neighbours" =>
        /\ probe.reads.up = <<probe.x, (probe.y + 1) % SIM_H>>
        /\ probe.reads.down = <<probe.x, (probe.y - 1) % SIM_H>>
        /\ probe.reads.left = <<(probe.x - 1) % SIM_W, probe.y>>
        /\ probe.reads.right = <<(probe.x + 1) % SIM_W, probe.y>>

\* C13 (as stated): after every update pass each stored position component
\* lies in [0, 1) and equals the integrated position modulo 1.0; an agent at
\* (0.995, 0.5) with velocity (0.02, 0.0), no neighbours and no touch, is
\* stored after one step at (0.015, 0.5).
C13_PositionWrapAsStated ==
    probe.fn = "integrate" =>
        /\ \A i \in {1, 2} :
              /\ probe.out.pos[i] \in 0..(Unit - 1)
              /\ probe.out.pos[i] = probe.out.integrated[i] % Unit
        /\ (/\ probe.pos = <<995, 500>>
            /\ probe.vel = <<20, 0>>
            /\ probe.accel = <<0, 0>>) => probe.out.pos = <<15, 500>>

\* C13 (amended): the stored position is the integrated position modulo 1.0,
\* in [0, 1); the agent at (0.995, 0.5) is stored at (0.015, 0.5) when the
\* velocity it is integrated with, after the speed limit, is (0.02, 0.0),
\* which takes u_maxSpeed >= 0.02.
C13_PositionWrap ==
    probe.fn = "integrate" =>
        /\ \A i \in {1, 2} :
              /\ probe.out.pos[i] \in 0..(Unit - 1)
              /\ probe.out.pos[i] = probe.out.integrated[i] % Unit
              /\ probe.out.integrated[i] = probe.pos[i] + probe.out.vel[i]
        /\ length(probe.out.vel) <= Max(probe.u_maxSpeed, 0)
        /\ (/\ probe.pos = <<995, 500>>
            /\ probe.vel = <<20, 0>>
            /\ probe.accel = <<0, 0>>) =>
                  probe.out.pos = IF probe.u_maxSpeed >= 20
                                  THEN <<15, 500>>
                                  ELSE <<(995 + probe.u_maxSpeed) % Unit, 500>>

C13_Witness ==
    /\ probe.fn = "integrate"
    /\ probe.pos = <<995, 500>>
    /\ probe.vel = <<20, 0>>
    /\ probe.accel = <<0, 0>>
    /\ probe.u_maxSpeed = 25
    /\ probe.out.integrated = <<1015, 500>>
    /\ probe.out.pos = <<15, 500>>

\* C14: in the seed state and after every step of the reaction-diffusion
\* model both stored channels of a cell lie in [0, 1], for feed and kill
\* values within or beyond the control bounds, with or without a touch.
C14_ConcentrationsClamped ==
    probe.fn \in {"rdSeed", "rdStep"} =>
        /\ probe.out.u \in 0..Unit
        /\ probe.out.v \in 0..Unit

\* a step with feed beyond the slider and an active touch whose computed
\* concentrations leave [0, 1] on both channels
C14_Witness ==
    /\ probe.fn = "rdStep"
    /\ probe.u_f = 5000
    /\ probe.strength = Unit
    /\ probe.out.raw[1] > Unit
    /\ probe.out.raw[2] < 0
    /\ probe.out.u = Unit
    /\ probe.out.v = 0

\* C15: the phase stored by the oscillator model is in [0, 2 pi) in the seed
\* written by the initializer, spiral seeds included, and after every step,
\* with or without touch; a value computed as negative is stored increased
\* by 2 pi.
C15_PhaseInRange ==
    /\ probe.fn \in {"oscSeed", "oscStep"} => probe.out.theta \in 0..(PI2 - 1)
    /\ (probe.fn = "oscStep" /\ probe.out.reduced < 0) =>
            probe.out.theta = probe.out.reduced + PI2

RECURSIVE Pow(_, _)
Pow(p, n) == IF n = 0 THEN 1 ELSE p * Pow(p, n - 1)

\* C16: a trail texel that no point sprite covers during n consecutive steps
\* with persistence p holds V * p^n in the current trail buffer afterwards:
\* each step multiplies the current trail buffer by p exactly once, into the
\* alternate buffer, which then becomes current.
C16_TrailDecay ==
    (/\ call.op \in {"animate", "start"}
     /\ call.sim = "boids"
     /\ ~call.threw
     /\ call.steps >= 1
     /\ ticks["boids"] >= 1) =>
        LET n == call.steps
            OnTrail(d) == d.fb \in {agent.trailFB[0], agent.trailFB[1]}
            IsFade(d) == d.prog = agent.trailFadeProg
            onTrail == SelectSeq(call.dispatches, OnTrail)
            fades == SelectSeq(call.dispatches, IsFade)
            cur == Sample(World, agent.trailTex[agent.curTrail]).hist
        IN  /\ Len(fades) = n
            /\ \A k \in 1..n :
                  /\ fades[k].uniforms.u_persistence = call.p
                  /\ fades[k].input = agent.trailTex[(agent.curTrail + n - k + 1) % 2]
                  /\ fades[k].target = agent.trailTex[(agent.curTrail + n - k) % 2]
                  /\ cur[Len(cur) - 2 * (n - k) - 1] = <<"fade">>
            /\ Len(cur) = 2 * ticks["boids"]
            /\ \A V \in TrailValues : TrailTexel(V, onTrail) = V * Pow(call.p, n)

\* a frame of two steps with persistence 2 on buffers stepped before
C16_Witness ==
    /\ call.op = "animate"
    /\ call.sim = "boids"
    /\ ~call.threw
    /\ call.steps = 2
    /\ call.p = 2
    /\ ticks["boids"] >= 2
    /\ TrailTexel(3, call.dispatches) = 12

\* C17: when the context reports no vertex-stage texture units, the agent
\* engine's setup returns before creating any program, texture, framebuffer
\* or vertex buffer, and every later step and render on the module is a
\* no-op.
C17_NoVertexTextureUnits ==
    gl.maxVTU < 1 =>
        /\ agent = EmptyAgent
        /\ \A o \in gl.live : o.sim # "boids"
        /\ (call.sim = "boids" /\ call.op \notin {"init", "event"}) =>
              /\ call.created = {}
              /\ call.inits = 0
              /\ call.dispatches = <<>>
              /\ ~call.failed
              /\ ~call.threw

\* a frame on the agent module, made active by a switchSim whose setup
\* returned at the capability check
C17_Witness ==
    /\ gl.maxVTU = 0
    /\ activeSim = "boids"
    /\ call.op = "animate"
    /\ call.sim = "boids"
    /\ call.steps >= 1
    /\ setups >= 1
    /\ gl.live = {}

\* C18: after a setup of the active simulation that aborted (a kernel failed
\* to compile or link, or the capability is missing), no frame of the
\* animation loop invokes step or render on that simulation until a later
\* setup of it succeeds.
C18_NoReentryAfterFailedSetup ==
    (/\ call.op = "animate"
     /\ call.sim = activeSim
     /\ ticks[activeSim] < 0) =>
        /\ call.steps = 0
        /\ call.dispatches = <<>>

\* The calls of one frame with n steps on module s.
Frame(s, p, touch, n) ==
    [k \in 1..n |-> [fn |-> "step", sim |-> s, p |-> p, touch |-> touch]]
    \o <<[fn |-> "render", sim |-> s], [fn |-> "frameTick"]>>

\* C19: in every animation frame with an active simulation the control
\* values and the interaction state are read once, then exactly N = speed
\* step calls are issued with those same values, then exactly one render
\* call and no step after it, and frameTick runs only after the render.
C19_FrameOrder ==
    LET InFrame(e) == e.fn \in {"step", "render", "frameTick"}
    IN  /\ call.op = "animate" =>
              call.log = Frame(activeSim, params, call.touch, speed)
        /\ call.op = "start" =>
              SelectSeq(call.log, InFrame)
                  = Frame(activeSim, params, call.touch, speed)

\* C20: switching the active simulation or resetting performs teardown of
\* the currently active simulation and then setup of the target, with no
\* step or render between the two; after any sequence of switches and
\* resets at most one simulation, the active one, holds GPU buffers, render
\* targets or programs.
C20_TeardownThenSetup ==
    [][/\ setups' # setups =>
            LET released == IF activeSim # NoSim
                            THEN <<[fn |-> "teardown", sim |-> activeSim]>>
                            ELSE <<>>
                expected == released \o <<[fn |-> "setup", sim |-> activeSim']>>
            IN  /\ Len(call'.log) >= Len(expected)
                /\ SubSeq(call'.log, 1, Len(expected)) = expected
                /\ call'.op \in {"switchSim", "resetSim"} => call'.log = expected
                /\ call'.op = "resetSim" => activeSim' = activeSim
       /\ \A s \in Sims : s # activeSim' => Handles(World, s)' = {}]_vars

\* a switch from a running simulation to another one
C20_Witness ==
    /\ call.op = "switchSim"
    /\ Len(call.log) = 2
    /\ call.log[1].fn = "teardown"
    /\ call.log[1].sim # activeSim
    /\ \E o \in call.deleted : o.sim = call.log[1].sim /\ o.kind = "texture"
    /\ call.deleted # {}
    /\ Handles(World, activeSim) # {}

\* C21: creating a render target whose binding the backend reports
\* incomplete is a fatal setup error: the failure is reported to the caller
\* and the setup that requested it does not leave the simulation runnable
\* (its step stays a no-op).
C21_IncompleteTargetIsFatal ==
    checkFramebufferStatus(World) = "incomplete" =>
        /\ (call.op = "setup" /\ \E o \in call.created : o.kind = "framebuffer")
              => call.failed
        /\ \A s \in Sims :
              /\ (IF s \in GridSims THEN grid[s].stepProg ELSE agent.stepProg) = null
              /\ (call.op = "step" /\ call.sim = s) =>
                    /\ call.dispatches = <<>>
                    /\ Indices(s) = <<0, 0>>

\* C22: changing a control whose descriptor carries resetsState triggers
\* teardown then setup of the active simulation with the new values;
\* changing a control without the flag triggers neither: the buffers and the
\* current index stay as the last step left them, and the next step sees
\* the new value.
C22_LiveParametersVersusReset ==
    [][/\ (call'.op = "inputReset" /\ setups' # setups) =>
             /\ call'.log = <<[fn |-> "teardown", sim |-> activeSim],
                              [fn |-> "setup", sim |-> activeSim]>>
             /\ call'.p = params'
             /\ activeSim' = activeSim
             /\ \A o \in Handles(World, activeSim) : o \notin gl'.live
             /\ Complete(World)' =>
                   Sample(World, CurrentState(World, activeSim))'
                       = InitState(activeSim, params', 1)
                   \/ Sample(World, CurrentState(World, activeSim))'
                       = InitState(activeSim, params', 2)
       /\ (params' # params /\ call'.op = "event") =>
             UNCHANGED <<grid, agent, gl, ticks, setups, activeSim>>
       /\ (call'.op = "animate" /\ params' = params) =>
             \A k \in 1..Len(call'.log) :
                 call'.log[k].fn = "step" => call'.log[k].p = params]_vars

\* the oscillator lattice, stepped, then reset by its flagged control
C22_Witness ==
    /\ call.op = "inputReset"
    /\ activeSim = "osc"
    /\ call.age >= 1
    /\ call.p = params
    /\ params # DefaultParams
    /\ Complete(World)
    /\ ticks["osc"] = 0

\* C23: after every update pass the stored velocity magnitude lies in
\* [minSpeed, maxSpeed] with minSpeed = 0.12 * maxSpeed > 0, so no agent is
\* stored with zero speed.
C23_SpeedClamp ==
    probe.fn = "integrate" =>
        /\ length(probe.out.vel) <= probe.u_maxSpeed
        /\ length(probe.out.vel) * 100 >= probe.u_maxSpeed * 12
        /\ length(probe.out.vel) > 0

\* C24: within one agent-engine step the update pass runs first and flips
\* the state index; the fade pass writes the decayed trail into the
\* alternate trail buffer; the point pass then draws, with additive
\* blending, onto that same buffer using the agent state this step's update
\* pass wrote; the trail index flips after accumulation and blending is
\* disabled before step returns: no update, fade or display pass runs with
\* blending enabled.
C24_PassOrder ==
    /\ ~gl.blend
    /\ \A k \in 1..Len(call.dispatches) :
          call.dispatches[k].blend => call.dispatches[k].prog.role = "boidDraw"
    /\ (call.op = "step" /\ call.sim = "boids" /\ ticks["boids"] >= 1) =>
          LET d == call.dispatches
              trail == Sample(World, agent.trailTex[agent.curTrail]).hist
          IN  /\ Len(d) = 3
              /\ d[1].prog = agent.stepProg
              /\ d[1].input = agent.stateTex[1 - agent.curState]
              /\ d[1].target = agent.stateTex[agent.curState]
              /\ d[2].prog = agent.trailFadeProg
              /\ d[2].input = agent.trailTex[1 - agent.curTrail]
              /\ d[2].target = agent.trailTex[agent.curTrail]
              /\ d[3].prog = agent.boidDrawProg
              /\ d[3].blend
              /\ d[3].fb = d[2].fb
              /\ d[3].input = d[1].target
              /\ agent.curState = ticks["boids"] % 2
              /\ agent.curTrail = ticks["boids"] % 2
              /\ trail[Len(trail) - 1] = <<"fade">>
              /\ trail[Len(trail)]
                    = <<"points", Sample(World, agent.stateTex[agent.curState])>>

\* the second step on a pair of buffers, with a touch
C24_Witness ==
    /\ call.op = "step"
    /\ call.sim = "boids"
    /\ ticks["boids"] = 2
    /\ call.touch.active
    /\ Len(call.dispatches) = 3
    /\ call.dispatches[3].blend
    /\ ~gl.blend

\* C25: whenever takeSnapshot returns or throws (the render callback or the
\* image encoding failing, the transport failing later), the canvas width
\* and height equal their values before the call, and the last render
\* issued was at the original size.
C25_SnapshotRestoresSurface ==
    probe.fn = "takeSnapshot" =>
        /\ probe.out.canvas = probe.canvas
        /\ probe.out.renders[Len(probe.out.renders)] = probe.canvas

\* C26: in every reachable state touchActive equals pointerDown; so the
\* frameTick of a frame changes nothing of the interaction state, and every
\* step of a frame is handed the pointer as it is held at that frame: a
\* press released before the frame is not active in any step.
C26_ActiveIffDown ==
    [][/\ touchActive <=> pointerDown
       /\ touchActive' <=> pointerDown'
       /\ call'.op \in {"animate", "start"} =>
            /\ UNCHANGED <<touchPos, touchActive, pointerDown>>
            /\ \A i \in 1..Len(call'.log) :
                 call'.log[i].fn = "step" =>
                    /\ call'.log[i].touch.active = pointerDown
                    /\ call'.log[i].touch.pos = touchPos]_vars

\* A frame that stepped and reached frameTick after a press and its
\* release: the steps saw the released pointer at the pressed position.
C26_Witness ==
    /\ call.op = "animate"
    /\ ~call.threw
    /\ touchPos \in Positions
    /\ ~pointerDown
    /\ \E i \in 1..Len(call.log) :
         /\ call.log[i].fn = "step"
         /\ call.log[i].touch = [pos |-> touchPos, active |-> FALSE]
    /\ call.log[Len(call.log)].fn = "frameTick"

\* C27: after teardown no GPU object that the preceding setup created is
\* still allocated: shader objects (those compiled inside createProgram,
\* whether it succeeded or failed), programs, textures, framebuffers and
\* vertex buffers of the module are all deleted.
C27_TeardownFreesEverything ==
    call.op = "teardown" => \A o \in gl.live : o.sim # call.sim

\* C28: with several modules registered, in any order, a key the active
\* module declares (the shared key desc in particular) is translated to
\* that module's own text, not to another module's text for the same key.
C28_OwnTranslation ==
    probe.fn = "t" => probe.out = Fragment(probe.sim)[probe.key][probe.lang]

\* C29: switching the language leaves the control values unchanged: the
\* parameter values and the speed the controls return after the switch
\* are those they returned before it, and the simulation state is not
\* reset by the switch.
C29_LangSwitchKeepsControls ==
    [][call'.op = "langSwitch" =>
          /\ params' = params
          /\ speed' = speed
          /\ UNCHANGED <<grid, agent, gl, ticks, setups, activeSim>>]_vars

\* C30: waitForKaTeX calls its callback exactly once and always
\* eventually: in the call itself when KaTeX is loaded, else at the first
\* poll at which it is loaded, or at the 51st poll when it never loads; the
\* timer is cleared with that call, so no second call follows.
C30_CallbackOnce ==
    /\ [][LET Called(pr) == IF pr.fn = "waitForKaTeX" THEN pr.callbacks ELSE 0
              Polled == probe.fn = "waitForKaTeX"
                        /\ probe'.attempts = probe.attempts + 1
          IN  /\ Called(probe') <= 1
              /\ Called(probe') >= Called(probe)
              /\ Called(probe') = 1 => probe'.interval # "active"
              /\ Called(probe') > Called(probe) =>
                   \/ probe = NoProbe /\ probe'.katex /\ probe'.attempts = 0
                   \/ Polled /\ probe.katex
                   \/ Polled /\ ~probe.katex /\ probe'.attempts = 51
              /\ (Polled /\ probe.katex) => Called(probe') > Called(probe)
              /\ (probe = NoProbe /\ probe'.katex) => Called(probe') = 1]_vars
    /\ <>(probe.fn = "waitForKaTeX" /\ probe.callbacks = 1)

\* KaTeX never loaded: the callback ran at the 51st poll, the timer is
\* cleared.
C30_Witness ==
    /\ probe.fn = "waitForKaTeX"
    /\ ~probe.katex
    /\ probe.attempts = 51
    /\ probe.callbacks = 1
    /\ probe.interval = "cleared"

====
